---- MODULE Spec2Model ----
(***************************************************************************)
(* Model of the .cpres bundle handler (src-tauri/src/cpres.rs):            *)
(* save_bundle, open_bundle, read_bundle_media and import_media_files.     *)
(* Strings are TLA+ strings; archives are sequences of named entries.      *)
(***************************************************************************)
EXTENDS Integers, Sequences, FiniteSets, TLC

VARIABLES
    dest,          \* content of the destination path on disk
    prior,         \* content of the destination when save_bundle was called
    tmp,           \* the NamedTempFile of the running save_bundle
    parentExists,  \* whether the destination's parent directory exists
    state,         \* the BundleState argument of save_bundle
    spc,           \* position of save_bundle
    si,            \* loop index of save_bundle (themes, then media)
    sres,          \* result of save_bundle
    ofile,         \* the file handle content open_bundle works on
    opc,           \* position of open_bundle
    oi,            \* loop index of open_bundle (archive.len() loop)
    parsed,        \* locals / returned ParsedBundle of open_bundle
    ores,          \* result of open_bundle
    oreads,        \* entries open_bundle has read so far, in order
    ofault,        \* an I/O or container fault was injected into open_bundle
    oafter,        \* open_bundle opened the file a successful save produced
    rarg,          \* media_path argument of the last read_bundle_media
    rres,          \* result of the last read_bundle_media
    ipaths,        \* paths argument of import_media_files
    ipc,           \* position of import_media_files
    ii,            \* loop index of import_media_files
    entries,       \* the entries vector of import_media_files
    ires,          \* result of import_media_files
    issued,        \* every MediaEntry any import call has pushed so far
    cpath,         \* input path of the classification check
    cres,          \* classification computed for cpath
    savers,        \* the concurrent save_bundle calls on the destination, by caller
    temps          \* the temp files in the destination's directory, by name

vars == <<dest, prior, tmp, parentExists, state, spc, si, sres,
          ofile, opc, oi, parsed, ores, oreads, ofault, oafter,
          rarg, rres, ipaths, ipc, ii, entries, ires, issued, cpath, cres,
          savers, temps>>

saveVars == <<dest, prior, tmp, parentExists, state, spc, si, sres>>
openVars == <<ofile, opc, oi, parsed, ores, oreads, ofault, oafter>>
readVars == <<rarg, rres>>
importVars == <<ipaths, ipc, ii, entries, ires, issued>>
classVars == <<cpath, cres>>
concVars == <<savers, temps>>

(***************************************************************************)
(* Bounds of the model.                                                    *)
(***************************************************************************)
MaxThemes == 2
MaxMedia == 2
MaxPaths == 2
NumSavers == 2

(***************************************************************************)
(* String helpers (str::starts_with, str::ends_with, str::to_lowercase).   *)
(***************************************************************************)
StartsWith(s, p) == Len(s) >= Len(p) /\ SubSeq(s, 1, Len(p)) = p

EndsWith(s, p) == Len(s) >= Len(p) /\ SubSeq(s, Len(s) - Len(p) + 1, Len(s)) = p

UpperChars == "ABCDEFGHIJKLMNOPQRSTUVWXYZ"

LowerChars == "abcdefghijklmnopqrstuvwxyz"

LowerChar(c) ==
    IF \E i \in 1..Len(UpperChars) : SubSeq(UpperChars, i, i) = c
    THEN LET i == CHOOSE j \in 1..Len(UpperChars) : SubSeq(UpperChars, j, j) = c
         IN SubSeq(LowerChars, i, i)
    ELSE c

RECURSIVE ToLowercase(_)
ToLowercase(s) ==
    IF Len(s) = 0 THEN ""
    ELSE LowerChar(SubSeq(s, 1, 1)) \o ToLowercase(SubSeq(s, 2, Len(s)))

\* index of the last occurrence of the character c in s, 0 when there is none
LastIndexOf(s, c) ==
    LET hits == {i \in 1..Len(s) : SubSeq(s, i, i) = c}
    IN IF hits = {} THEN 0 ELSE CHOOSE i \in hits : \A j \in hits : j <= i

(***************************************************************************)
(* Results: CpresError (kind + the payload its Display prints) or Ok.      *)
(***************************************************************************)
Err(kind, detail) == [kind |-> kind, detail |-> detail]

Ok == [kind |-> "Ok", detail |-> ""]

NoResult == [kind |-> "none", detail |-> ""]

\* std::io::Error produced by the OS: it carries the OS message, not a path
IoError == Err("Io", "os error")

(***************************************************************************)
(* Files on disk.                                                          *)
(***************************************************************************)
Absent == [tag |-> "absent", entries |-> <<>>]

Garbage == [tag |-> "garbage", entries |-> <<>>]

ZipFile(es) == [tag |-> "zip", entries |-> es]

\* a temp file whose archive has no central directory yet
PartialFile(es) == [tag |-> "partial", entries |-> es]

Entry(name, data) == [name |-> name, data |-> data]

HasEntry(es, name) == \E i \in 1..Len(es) : es[i].name = name

EntryData(es, name) == es[CHOOSE i \in 1..Len(es) : es[i].name = name].data

\* external source files: readable ones map to their bytes
Readable(p) == p # "/src/gone.mp3"

FileData(p) ==
    CASE p = "/src/a.jpg" -> "JPEG-BYTES"
      [] p = "/src/b.mp3" -> "MP3-BYTES"
      [] p = "/src/photo.PNG" -> "PNG-BYTES"
      [] p = "/src/notes.txt" -> "some notes"
      [] OTHER -> "readme"

(***************************************************************************)
(* Inputs of save_bundle: BundleState values.                              *)
(***************************************************************************)
RECURSIVE SeqsUpTo(_, _)
SeqsUpTo(S, n) ==
    IF n = 0 THEN {<<>>}
    ELSE LET shorter == SeqsUpTo(S, n - 1)
         IN shorter \cup {Append(q, x) : q \in {r \in shorter : Len(r) = n - 1}, x \in S}

ValidManifest == "{\"formatVersion\":1,\"presentationId\":\"p1\"}"

SlidesText == "[{\"id\":\"s1\"}]"

ArrangementText == "{\"order\":[\"s1\"]}"

ThemeFile(filename, content) == [filename |-> filename, content |-> content]

ThemeFileSet ==
    { ThemeFile("themes/b.json", "{\"name\":\"B\"}"),
      ThemeFile("themes/a.json", "{\"name\":\"A\"}"),
      ThemeFile("themes/notes.txt", "plain"),
      ThemeFile("slides.json", "{\"name\":\"S\"}") }

MediaFileRef(id, source_path, bundle_path) ==
    [id |-> id, source_path |-> source_path, bundle_path |-> bundle_path]

MediaRefSet ==
    { MediaFileRef("m1", "/src/a.jpg", "media/a1b2c3d4.jpg"),
      MediaFileRef("m3", "bundle:media/0badcafe.png", "media/0badcafe.png"),
      MediaFileRef("m4", "/src/gone.mp3", "media/99999999.mp3"),
      MediaFileRef("m2", "/src/b.mp3", "themes/z.json") }

BundleStates ==
    [ manifest : {ValidManifest, "{}"},
      slides : {SlidesText},
      arrangement : {ArrangementText},
      themes : SeqsUpTo(ThemeFileSet, MaxThemes),
      media : SeqsUpTo(MediaRefSet, MaxMedia) ]

NoState ==
    [manifest |-> "", slides |-> "", arrangement |-> "", themes |-> <<>>, media |-> <<>>]

(***************************************************************************)
(* save_bundle, one action per statement that can fail or change a file.   *)
(***************************************************************************)
SaveRunning == spc \notin {"idle", "done", "failed", "crashed"}

\* variant: the temp file is a plain file that nothing removes on an early return
SaveFailLeaking(e) ==
    /\ spc' = "failed"
    /\ sres' = e
    /\ UNCHANGED <<dest, prior, tmp, parentExists, state, si>>

\* an early return through `?`: the NamedTempFile is dropped, which removes it
SaveFail(e) ==
    /\ spc' = "failed"
    /\ sres' = e
    /\ tmp' = Absent
    /\ UNCHANGED <<dest, prior, parentExists, state, si>>

\* zip.start_file(name) + zip.write_all(data) on the temp file, then go to `next`
SaveWrite(name, data, next, idx) ==
    \/ /\ ~HasEntry(tmp.entries, name)
       /\ tmp' = PartialFile(Append(tmp.entries, Entry(name, data)))
       /\ spc' = next
       /\ si' = idx
       /\ UNCHANGED <<dest, prior, parentExists, state, sres>>
    \/ /\ HasEntry(tmp.entries, name)
       /\ SaveFail(Err("Zip", "Duplicate filename"))
    \/ SaveFail(IoError)

SaveBegin ==
    /\ spc = "idle"
    /\ opc = "idle"
    /\ rres = NoResult
    /\ \E st \in BundleStates : state' = st
    /\ prior' = dest
    /\ spc' = "create_dir"
    /\ UNCHANGED <<dest, tmp, parentExists, si, sres>>
    /\ UNCHANGED <<openVars, readVars, importVars, classVars, concVars>>

SaveCreateDir ==
    /\ spc = "create_dir"
    /\ \/ /\ parentExists' = TRUE
          /\ spc' = "create_temp"
          /\ UNCHANGED <<dest, prior, tmp, state, si, sres>>
       \/ /\ ~parentExists
          /\ SaveFail(IoError)
    /\ UNCHANGED <<openVars, readVars, importVars, classVars, concVars>>

\* variant: the archive is created at the destination path itself
SaveCreateTempInPlace ==
    /\ spc = "create_temp"
    /\ dest' = PartialFile(<<>>)
    /\ tmp' = PartialFile(<<>>)
    /\ spc' = "manifest"
    /\ UNCHANGED <<prior, parentExists, state, si, sres>>
    /\ UNCHANGED <<openVars, readVars, importVars, classVars, concVars>>

SaveCreateTemp ==
    /\ spc = "create_temp"
    /\ \/ /\ tmp' = PartialFile(<<>>)
          /\ spc' = "manifest"
          /\ UNCHANGED <<dest, prior, parentExists, state, si, sres>>
       \/ SaveFail(IoError)
    /\ UNCHANGED <<openVars, readVars, importVars, classVars, concVars>>

SaveManifest ==
    /\ spc = "manifest"
    /\ SaveWrite("manifest.json", state.manifest, "slides", si)
    /\ UNCHANGED <<openVars, readVars, importVars, classVars, concVars>>

SaveSlides ==
    /\ spc = "slides"
    /\ SaveWrite("slides.json", state.slides, "arrangement", si)
    /\ UNCHANGED <<openVars, readVars, importVars, classVars, concVars>>

\* variant: the slides text is written under arrangement.json
SaveArrangementSwapped ==
    /\ spc = "arrangement"
    /\ SaveWrite("arrangement.json", state.slides, "themes", 1)
    /\ UNCHANGED <<openVars, readVars, importVars, classVars, concVars>>

SaveArrangement ==
    /\ spc = "arrangement"
    /\ SaveWrite("arrangement.json", state.arrangement, "themes", 1)
    /\ UNCHANGED <<openVars, readVars, importVars, classVars, concVars>>

\* variant: the themes are written last to first
SaveThemeReversed ==
    /\ spc = "themes"
    /\ IF si <= Len(state.themes)
       THEN LET theme == state.themes[Len(state.themes) - si + 1]
            IN SaveWrite(theme.filename, theme.content, "themes", si + 1)
       ELSE /\ spc' = "media"
            /\ si' = 1
            /\ UNCHANGED <<dest, prior, tmp, parentExists, state, sres>>
    /\ UNCHANGED <<openVars, readVars, importVars, classVars, concVars>>

SaveTheme ==
    /\ spc = "themes"
    /\ IF si <= Len(state.themes)
       THEN SaveWrite(state.themes[si].filename, state.themes[si].content, "themes", si + 1)
       ELSE /\ spc' = "media"
            /\ si' = 1
            /\ UNCHANGED <<dest, prior, tmp, parentExists, state, sres>>
    /\ UNCHANGED <<openVars, readVars, importVars, classVars, concVars>>

SaveMedia ==
    /\ spc = "media"
    /\ IF si <= Len(state.media)
       THEN LET media_ref == state.media[si]
            IN IF StartsWith(media_ref.source_path, "bundle:")
               THEN \* `continue`: nothing is written for this ref
                    /\ si' = si + 1
                    /\ UNCHANGED <<dest, prior, tmp, parentExists, state, spc, sres>>
               ELSE IF Readable(media_ref.source_path)
                    THEN SaveWrite(media_ref.bundle_path, FileData(media_ref.source_path),
                                   "media", si + 1)
                    ELSE SaveFail(IoError)
       ELSE /\ spc' = "finish"
            /\ UNCHANGED <<dest, prior, tmp, parentExists, state, si, sres>>
    /\ UNCHANGED <<openVars, readVars, importVars, classVars, concVars>>

SaveFinish ==
    /\ spc = "finish"
    /\ \/ /\ tmp' = ZipFile(tmp.entries)
          /\ spc' = "persist"
          /\ UNCHANGED <<dest, prior, parentExists, state, si, sres>>
       \/ SaveFail(IoError)
    /\ UNCHANGED <<openVars, readVars, importVars, classVars, concVars>>

\* temp_file.persist(path): an atomic rename of the temp file onto the destination
SavePersist ==
    /\ spc = "persist"
    /\ \/ /\ dest' = tmp
          /\ tmp' = Absent
          /\ spc' = "done"
          /\ sres' = Ok
          /\ UNCHANGED <<prior, parentExists, state, si>>
       \/ SaveFail(IoError)
    /\ UNCHANGED <<openVars, readVars, importVars, classVars, concVars>>

\* the process dies in the middle of the call: no destructor runs
SaveCrash ==
    /\ SaveRunning
    /\ spc' = "crashed"
    /\ UNCHANGED <<dest, prior, tmp, parentExists, state, si, sres>>
    /\ UNCHANGED <<openVars, readVars, importVars, classVars, concVars>>

(***************************************************************************)
(* serde_json::from_str and Value::get, on the flat texts of the model:    *)
(* a text is well-formed when it is a bracketed object or array; a key is  *)
(* present when the text is an object that contains "key": .               *)
(***************************************************************************)
Contains(s, sub) ==
    \E i \in 1..(Len(s) - Len(sub) + 1) : SubSeq(s, i, i + Len(sub) - 1) = sub

JsonWellFormed(text) ==
    \/ StartsWith(text, "{") /\ EndsWith(text, "}")
    \/ StartsWith(text, "[") /\ EndsWith(text, "]")

JsonGet(text, key) ==
    /\ StartsWith(text, "{")
    /\ Contains(text, "\"" \o key \o "\":")

\* payloads that are not valid UTF-8 (binary media)
BinaryData == {"JPEG-BYTES", "MP3-BYTES", "PNG-BYTES"}

IsUtf8(data) == data \notin BinaryData

(***************************************************************************)
(* read_zip_file(archive, name).  fault is the failure injected by the     *)
(* container: "lookup" (by_name fails on a present entry), "read"          *)
(* (read_to_string fails) or "none".                                       *)
(***************************************************************************)
\* variant: the by_name error is propagated with `?` instead of being mapped
ReadZipFileUnmapped(es, name, fault) ==
    IF ~HasEntry(es, name) \/ fault = "lookup"
    THEN Err("Zip", "specified file not found in archive")
    ELSE IF fault = "read" THEN IoError
    ELSE IF ~IsUtf8(EntryData(es, name))
         THEN Err("Io", "stream did not contain valid UTF-8")
    ELSE [kind |-> "Ok", detail |-> EntryData(es, name)]

ReadZipFile(es, name, fault) ==
    IF ~HasEntry(es, name) \/ fault = "lookup"
    THEN Err("MissingFile", name)
    ELSE IF fault = "read" THEN IoError
    ELSE IF ~IsUtf8(EntryData(es, name))
         THEN Err("Io", "stream did not contain valid UTF-8")
    ELSE [kind |-> "Ok", detail |-> EntryData(es, name)]

Faults == {"none", "lookup", "read"}

NoBundle == [manifest |-> "", slides |-> "", arrangement |-> "", themes |-> <<>>]

(***************************************************************************)
(* open_bundle                                                             *)
(***************************************************************************)
OpenFail(e, injected) ==
    /\ opc' = "done"
    /\ ores' = e
    /\ parsed' = NoBundle
    /\ ofault' = (ofault \/ injected)
    /\ UNCHANGED <<ofile, oi, oreads, oafter>>

\* read_zip_file(&mut archive, name)? storing the text in field fld
OpenRead(name, fld, next) ==
    \E f \in Faults :
        LET r == ReadZipFile(ofile.entries, name, f)
        IN IF r.kind = "Ok"
           THEN /\ parsed' = [parsed EXCEPT ![fld] = r.detail]
                /\ oreads' = Append(oreads, name)
                /\ opc' = next
                /\ UNCHANGED <<ofile, oi, ores, ofault, oafter>>
           ELSE OpenFail(r, f # "none" /\ HasEntry(ofile.entries, name))

\* calls on one document are serialized by the application: open_bundle and
\* read_bundle_media run before a save or after one that returned success
SaveQuiet == spc \in {"idle", "done"}

OpenBegin ==
    /\ opc = "idle"
    /\ SaveQuiet
    /\ rres = NoResult
    /\ \/ /\ dest.tag # "absent"
          /\ ofile' = dest
          /\ opc' = "archive"
          /\ oafter' = (spc = "done")
          /\ UNCHANGED <<oi, parsed, ores, oreads, ofault>>
       \/ /\ OpenFail(IoError, dest.tag # "absent")
    /\ UNCHANGED <<saveVars, readVars, importVars, classVars, concVars>>

OpenArchive ==
    /\ opc = "archive"
    /\ \/ /\ ofile.tag = "zip"
          /\ opc' = "manifest"
          /\ UNCHANGED <<ofile, oi, parsed, ores, oreads, ofault, oafter>>
       \/ OpenFail(Err("Zip", "invalid Zip archive"), ofile.tag = "zip")
    /\ UNCHANGED <<saveVars, readVars, importVars, classVars, concVars>>

OpenManifest ==
    /\ opc = "manifest"
    /\ OpenRead("manifest.json", "manifest", "validate")
    /\ UNCHANGED <<saveVars, readVars, importVars, classVars, concVars>>

\* variant: the manifest is parsed but its keys are not checked
OpenValidateNoKeys ==
    /\ opc = "validate"
    /\ IF ~JsonWellFormed(parsed.manifest)
       THEN OpenFail(Err("Json", "expected value"), FALSE)
       ELSE /\ opc' = "slides"
            /\ UNCHANGED <<ofile, oi, parsed, ores, oreads, ofault, oafter>>
    /\ UNCHANGED <<saveVars, readVars, importVars, classVars, concVars>>

OpenValidate ==
    /\ opc = "validate"
    /\ IF ~JsonWellFormed(parsed.manifest)
       THEN OpenFail(Err("Json", "expected value"), FALSE)
       ELSE IF ~JsonGet(parsed.manifest, "formatVersion")
       THEN OpenFail(Err("InvalidBundle", "Missing formatVersion in manifest"), FALSE)
       ELSE IF ~JsonGet(parsed.manifest, "presentationId")
       THEN OpenFail(Err("InvalidBundle", "Missing presentationId in manifest"), FALSE)
       ELSE /\ opc' = "slides"
            /\ UNCHANGED <<ofile, oi, parsed, ores, oreads, ofault, oafter>>
    /\ UNCHANGED <<saveVars, readVars, importVars, classVars, concVars>>

OpenSlides ==
    /\ opc = "slides"
    /\ OpenRead("slides.json", "slides", "arrangement")
    /\ UNCHANGED <<saveVars, readVars, importVars, classVars, concVars>>

OpenArrangement ==
    /\ opc = "arrangement"
    /\ OpenRead("arrangement.json", "arrangement", "themes")
    /\ UNCHANGED <<saveVars, readVars, importVars, classVars, concVars>>

\* variant: every entry under themes/ is collected, whatever its suffix
OpenThemesPrefixOnly ==
    /\ opc = "themes"
    /\ IF oi <= Len(ofile.entries)
       THEN LET name == ofile.entries[oi].name
            IN \/ OpenFail(Err("Zip", "invalid Zip archive"), TRUE)
               \/ IF StartsWith(name, "themes/")
                  THEN \E f \in Faults :
                         LET r == ReadZipFile(ofile.entries, name, f)
                         IN IF r.kind = "Ok"
                            THEN /\ parsed' = [parsed EXCEPT !.themes =
                                                 Append(@, ThemeFile(name, r.detail))]
                                 /\ oreads' = Append(oreads, name)
                                 /\ oi' = oi + 1
                                 /\ UNCHANGED <<ofile, opc, ores, ofault, oafter>>
                            ELSE OpenFail(r, f # "none")
                  ELSE /\ oi' = oi + 1
                       /\ UNCHANGED <<ofile, opc, parsed, ores, oreads, ofault, oafter>>
       ELSE /\ opc' = "done"
            /\ ores' = Ok
            /\ UNCHANGED <<ofile, oi, parsed, oreads, ofault, oafter>>
    /\ UNCHANGED <<saveVars, readVars, importVars, classVars, concVars>>

\* one iteration of `for i in 0..archive.len()`, or the final Ok(ParsedBundle)
OpenThemes ==
    /\ opc = "themes"
    /\ IF oi <= Len(ofile.entries)
       THEN LET name == ofile.entries[oi].name
            IN \/ OpenFail(Err("Zip", "invalid Zip archive"), TRUE)
               \/ IF StartsWith(name, "themes/") /\ EndsWith(name, ".json")
                  THEN \E f \in Faults :
                         LET r == ReadZipFile(ofile.entries, name, f)
                         IN IF r.kind = "Ok"
                            THEN /\ parsed' = [parsed EXCEPT !.themes =
                                                 Append(@, ThemeFile(name, r.detail))]
                                 /\ oreads' = Append(oreads, name)
                                 /\ oi' = oi + 1
                                 /\ UNCHANGED <<ofile, opc, ores, ofault, oafter>>
                            ELSE OpenFail(r, f # "none")
                  ELSE /\ oi' = oi + 1
                       /\ UNCHANGED <<ofile, opc, parsed, ores, oreads, ofault, oafter>>
       ELSE /\ opc' = "done"
            /\ ores' = Ok
            /\ UNCHANGED <<ofile, oi, parsed, oreads, ofault, oafter>>
    /\ UNCHANGED <<saveVars, readVars, importVars, classVars, concVars>>

(***************************************************************************)
(* read_bundle_media(bundle_path, media_path), as a function of the file   *)
(* and of the failure the container injects.                               *)
(***************************************************************************)
\* variant: the manifest is looked up and checked before the media entry
ReadBundleMediaValidating(file, media_path, fault) ==
    IF file.tag = "absent" THEN IoError
    ELSE IF file.tag # "zip" THEN Err("Zip", "invalid Zip archive")
    ELSE IF ~HasEntry(file.entries, "manifest.json")
         THEN Err("MissingFile", "manifest.json")
    ELSE IF ~JsonGet(EntryData(file.entries, "manifest.json"), "formatVersion")
         THEN Err("InvalidBundle", "Missing formatVersion in manifest")
    ELSE IF ~HasEntry(file.entries, media_path) \/ fault = "lookup"
         THEN Err("MissingFile", media_path)
    ELSE IF fault = "read" THEN IoError
    ELSE [kind |-> "Ok", detail |-> EntryData(file.entries, media_path)]

ReadBundleMedia(file, media_path, fault) ==
    IF file.tag = "absent" THEN IoError
    ELSE IF file.tag # "zip" THEN Err("Zip", "invalid Zip archive")
    ELSE IF ~HasEntry(file.entries, media_path) \/ fault = "lookup"
         THEN Err("MissingFile", media_path)
    ELSE IF fault = "read" THEN IoError
    ELSE [kind |-> "Ok", detail |-> EntryData(file.entries, media_path)]

MediaPaths ==
    {r.bundle_path : r \in MediaRefSet} \cup {"media/none.bin", "manifest.json"}

ReadMedia ==
    /\ SaveQuiet
    /\ opc = "idle" \/ (opc = "done" /\ ores = Ok)
    /\ rres = NoResult
    /\ \E p \in MediaPaths, f \in Faults :
          /\ rarg' = [path |-> p, fault |-> f]
          /\ rres' = ReadBundleMedia(dest, p, f)
    /\ UNCHANGED <<saveVars, openVars, importVars, classVars, concVars>>

(***************************************************************************)
(* import_media_files                                                      *)
(***************************************************************************)
\* Path::file_name: the last component, None (<<>>) for "", "/" and "..".
RECURSIVE FileNameOpt(_)
FileNameOpt(path) ==
    IF Len(path) = 0 THEN <<>>
    ELSE IF EndsWith(path, "/") THEN FileNameOpt(SubSeq(path, 1, Len(path) - 1))
    ELSE LET name == SubSeq(path, LastIndexOf(path, "/") + 1, Len(path))
         IN IF name = ".." THEN <<>> ELSE <<name>>

\* Path::extension: the part of file_name after its last dot; None when there
\* is no file name, no dot, or the only dot is the first character.
ExtensionOpt(path) ==
    LET fn == FileNameOpt(path)
    IN IF fn = <<>> THEN <<>>
       ELSE LET name == fn[1]
                dot == LastIndexOf(name, ".")
            IN IF dot <= 1 THEN <<>> ELSE <<SubSeq(name, dot + 1, Len(name))>>

UnwrapOr(opt, default) == IF opt = <<>> THEN default ELSE opt[1]

FilenameOf(path) == UnwrapOr(FileNameOpt(path), "unknown")

\* variant: the extension keeps the case of the path
ExtensionOfCaseSensitive(path) == UnwrapOr(ExtensionOpt(path), "")

ExtensionOf(path) == ToLowercase(UnwrapOr(ExtensionOpt(path), ""))

MimeOf(extension) ==
    CASE extension \in {"jpg", "jpeg"} -> "image/jpeg"
      [] extension = "png" -> "image/png"
      [] extension = "gif" -> "image/gif"
      [] extension = "webp" -> "image/webp"
      [] extension = "svg" -> "image/svg+xml"
      [] extension = "mp4" -> "video/mp4"
      [] extension = "webm" -> "video/webm"
      [] extension = "mov" -> "video/quicktime"
      [] extension = "mp3" -> "audio/mpeg"
      [] extension = "wav" -> "audio/wav"
      [] extension = "ogg" -> "audio/ogg"
      [] OTHER -> "application/octet-stream"

MediaTypeOf(mime) ==
    IF StartsWith(mime, "image/") THEN "image"
    ELSE IF StartsWith(mime, "video/") THEN "video"
    ELSE IF StartsWith(mime, "audio/") THEN "audio"
    ELSE "unknown"

\* hex::encode(Sha256(data)): an idealised digest, a function of the bytes only
Sha256Hex(data) == "sha256:" \o data

IdPrefixLen == 8

\* variant: the path is built from the extension alone
BundlePathIgnoringId(id, extension) == "media/file." \o extension

\* variant: the dot is left out when the extension is empty
BundlePathNoTrailingDot(id, extension) ==
    IF extension = "" THEN "media/" \o SubSeq(id, 1, IdPrefixLen)
    ELSE "media/" \o SubSeq(id, 1, IdPrefixLen) \o "." \o extension

BundlePathOf(id, extension) == "media/" \o SubSeq(id, 1, IdPrefixLen) \o "." \o extension

MediaEntry(id, path) ==
    LET extension == ExtensionOf(path)
        mime == MimeOf(extension)
        data == FileData(path)
    IN [ id |-> id,
         filename |-> FilenameOf(path),
         path |-> BundlePathOf(id, extension),
         mime |-> mime,
         sha256 |-> Sha256Hex(data),
         byte_size |-> Len(data),
         media_type |-> MediaTypeOf(mime) ]

\* the tokens uuid::Uuid::new_v4() can return (shortened after the first group)
IdPool == {"a1b2c3d4-0001", "a1b2c3d4-0002", "e5f6a7b8-0001", "e5f6a7b8-0002"}

ImportPathSet ==
    {"/src/a.jpg", "/src/photo.PNG", "/src/notes.txt", "/src/README", "/src/gone.mp3"}

UsedIds == {e.id : e \in issued} \cup {entries[k].id : k \in 1..Len(entries)}

ImportBegin ==
    /\ ipc \in {"idle", "done"}
    /\ \E ps \in SeqsUpTo(ImportPathSet, MaxPaths) :
          /\ Cardinality(IdPool \ {e.id : e \in issued}) >= Len(ps)
          /\ ipaths' = ps
    /\ entries' = <<>>
    /\ ii' = 1
    /\ ipc' = "loop"
    /\ ires' = NoResult
    /\ UNCHANGED issued
    /\ UNCHANGED <<saveVars, openVars, readVars, classVars, concVars>>

\* variant: an unreadable file is skipped instead of aborting the batch
ImportStepSkipping ==
    /\ ipc = "loop"
    /\ IF ii <= Len(ipaths)
       THEN IF Readable(ipaths[ii])
            THEN /\ \E id \in IdPool \ UsedIds :
                       entries' = Append(entries, MediaEntry(id, ipaths[ii]))
                 /\ ii' = ii + 1
                 /\ UNCHANGED <<ipaths, ipc, ires, issued>>
            ELSE /\ ii' = ii + 1
                 /\ UNCHANGED <<ipaths, ipc, ires, issued, entries>>
       ELSE /\ ipc' = "done"
            /\ ires' = Ok
            /\ issued' = issued \cup {entries[k] : k \in 1..Len(entries)}
            /\ UNCHANGED <<ipaths, ii, entries>>
    /\ UNCHANGED <<saveVars, openVars, readVars, classVars, concVars>>

\* one iteration of `for path in paths`, or the final Ok(entries)
ImportStep ==
    /\ ipc = "loop"
    /\ IF ii <= Len(ipaths)
       THEN IF Readable(ipaths[ii])
            THEN /\ \E id \in IdPool \ UsedIds :
                       entries' = Append(entries, MediaEntry(id, ipaths[ii]))
                 /\ ii' = ii + 1
                 /\ UNCHANGED <<ipaths, ipc, ires, issued>>
            ELSE \* fs::read(path)? returns early: the entries vector is dropped
                 /\ ipc' = "done"
                 /\ ires' = IoError
                 /\ entries' = <<>>
                 /\ UNCHANGED <<ipaths, ii, issued>>
       ELSE /\ ipc' = "done"
            /\ ires' = Ok
            /\ issued' = issued \cup {entries[k] : k \in 1..Len(entries)}
            /\ UNCHANGED <<ipaths, ii, entries>>
    /\ UNCHANGED <<saveVars, openVars, readVars, classVars, concVars>>

(***************************************************************************)
(* The classification part of import_media_files, applied to one path.     *)
(***************************************************************************)
NoClass == [extension |-> "?", mime |-> "?", media_type |-> "?"]

Classification(path) ==
    LET extension == ExtensionOf(path)
        mime == MimeOf(extension)
    IN [extension |-> extension, mime |-> mime, media_type |-> MediaTypeOf(mime)]

Classify ==
    /\ cres = NoClass
    /\ cres' = Classification(cpath)
    /\ UNCHANGED cpath
    /\ UNCHANGED <<saveVars, openVars, readVars, importVars, concVars>>

(***************************************************************************)
(* Initial states and specifications.                                      *)
(***************************************************************************)
BaseEntries ==
    << Entry("manifest.json", ValidManifest),
       Entry("slides.json", SlidesText),
       Entry("arrangement.json", ArrangementText) >>

WithManifest(text) ==
    << Entry("manifest.json", text),
       Entry("slides.json", SlidesText),
       Entry("arrangement.json", ArrangementText) >>

\* the bundle a save replaces
PreviousBundle ==
    ZipFile(BaseEntries \o << Entry("themes/a.json", "{\"name\":\"old\"}"),
                              Entry("media/0badcafe.png", "PNG-BYTES") >>)

\* what the destination path may hold before save_bundle is called
SavePriorFiles == {Absent, Garbage, PreviousBundle}

\* what the path given to open_bundle and read_bundle_media may hold
PriorFiles ==
    { Absent,
      Garbage,
      PreviousBundle,
      ZipFile(BaseEntries \o << Entry("themes/b.json", "{\"name\":\"B\"}"),
                                Entry("themes/readme.txt", "plain"),
                                Entry("themes/a.json", "{\"name\":\"A\"}"),
                                Entry("media/0badcafe.png", "PNG-BYTES") >>),
      ZipFile(WithManifest("{}")),
      ZipFile(WithManifest("not json")),
      ZipFile(WithManifest("{\"formatVersion\":1}")),
      ZipFile(WithManifest("{\"presentationId\":\"p1\"}")),
      ZipFile(<< Entry("manifest.json", "{\"presentationId\":\"p1\"}") >>),
      ZipFile(<< Entry("manifest.json", "{}"),
                 Entry("media/a1b2c3d4.jpg", "JPEG-BYTES") >>),
      ZipFile(<< Entry("manifest.json", ValidManifest),
                 Entry("arrangement.json", ArrangementText) >>),
      ZipFile(<< Entry("manifest.json", ValidManifest),
                 Entry("slides.json", SlidesText) >>),
      ZipFile(<< Entry("slides.json", SlidesText),
                 Entry("arrangement.json", ArrangementText) >>) }

RECURSIVE MapChars(_, _, _)
MapChars(s, from, to) ==
    IF Len(s) = 0 THEN ""
    ELSE LET c == SubSeq(s, 1, 1)
             hits == {i \in 1..Len(from) : SubSeq(from, i, i) = c}
             d == IF hits = {} THEN c
                  ELSE LET i == CHOOSE j \in hits : TRUE IN SubSeq(to, i, i)
         IN d \o MapChars(SubSeq(s, 2, Len(s)), from, to)

ToUppercase(s) == MapChars(s, LowerChars, UpperChars)

Capitalize(s) ==
    IF Len(s) = 0 THEN s ELSE ToUppercase(SubSeq(s, 1, 1)) \o SubSeq(s, 2, Len(s))

ExtSpellings ==
    LET lower == {"jpg", "jpeg", "png", "gif", "webp", "svg", "mp4", "webm", "mov",
                  "mp3", "wav", "ogg", "txt", "bin", "jpgx"}
    IN lower \cup {ToUppercase(e) : e \in lower} \cup {Capitalize(e) : e \in lower}

ClassifyPaths ==
    {"/m/" \o stem \o "." \o e : stem \in {"photo", "my.clip"}, e \in ExtSpellings}
    \cup {"/m/." \o e : e \in {"jpg", "PNG", "mov"}}
    \cup {"/m/README", "/m/notes.", "/m/dir.png/README", "/m/.."}

InitSave ==
    /\ dest \in SavePriorFiles
    /\ prior = dest
    /\ tmp = Absent
    /\ parentExists \in BOOLEAN
    /\ (dest # Absent => parentExists)
    /\ state = NoState
    /\ spc = "idle"
    /\ si = 1
    /\ sres = NoResult

InitOpen ==
    /\ ofile = Absent
    /\ opc = "idle"
    /\ oi = 1
    /\ parsed = NoBundle
    /\ ores = NoResult
    /\ oreads = <<>>
    /\ ofault = FALSE
    /\ oafter = FALSE
    /\ rarg = [path |-> "", fault |-> "none"]
    /\ rres = NoResult

InitImport ==
    /\ ipaths = <<>>
    /\ ipc = "idle"
    /\ ii = 1
    /\ entries = <<>>
    /\ ires = NoResult
    /\ issued = {}

InitClassify ==
    /\ cpath = ""
    /\ cres = NoClass
    /\ savers = [p \in 1..NumSavers |-> [pc |-> "idle", si |-> 1, res |-> NoResult]]
    /\ temps = [t \in 1..NumSavers |-> Absent]

\* Spec: save_bundle, open_bundle and read_bundle_media on one destination path
Init == InitSave /\ InitOpen /\ InitImport /\ InitClassify

Next ==
    \/ SaveBegin
    \/ SaveCreateDir
    \/ SaveCreateTemp
    \/ SaveManifest
    \/ SaveSlides
    \/ SaveArrangement
    \/ SaveTheme
    \/ SaveMedia
    \/ SaveFinish
    \/ SavePersist
    \/ SaveCrash
    \/ OpenBegin
    \/ OpenArchive
    \/ OpenManifest
    \/ OpenValidate
    \/ OpenSlides
    \/ OpenArrangement
    \/ OpenThemes
    \/ ReadMedia

Spec == Init /\ [][Next]_vars

\* SpecOpen: open_bundle and read_bundle_media on any kind of file
InitOpenSpec ==
    /\ dest \in PriorFiles
    /\ prior = dest
    /\ tmp = Absent
    /\ parentExists = TRUE
    /\ state = NoState
    /\ spc = "idle"
    /\ si = 1
    /\ sres = NoResult
    /\ InitOpen
    /\ InitImport
    /\ InitClassify

NextOpen ==
    \/ OpenBegin
    \/ OpenArchive
    \/ OpenManifest
    \/ OpenValidate
    \/ OpenSlides
    \/ OpenArrangement
    \/ OpenThemes
    \/ ReadMedia

SpecOpen == InitOpenSpec /\ [][NextOpen]_vars

\* SpecConc: concurrent saves on one destination, with open_bundle and
\* read_bundle_media running at any moment
InitConcSpec ==
    /\ dest \in {Absent, PreviousBundle}
    /\ prior = dest
    /\ tmp = Absent
    /\ parentExists \in BOOLEAN
    /\ (dest # Absent => parentExists)
    /\ state = NoState
    /\ spc = "idle"
    /\ si = 1
    /\ sres = NoResult
    /\ InitOpen
    /\ InitImport
    /\ InitClassify

\* SpecImport: batches of import_media_files
InitImportSpec ==
    /\ dest = Absent
    /\ prior = Absent
    /\ tmp = Absent
    /\ parentExists = TRUE
    /\ state = NoState
    /\ spc = "idle"
    /\ si = 1
    /\ sres = NoResult
    /\ InitOpen
    /\ InitImport
    /\ InitClassify

NextImport == ImportBegin \/ ImportStep

SpecImport == InitImportSpec /\ [][NextImport]_vars

\* SpecClassify: the extension classification applied to one path
InitClassifySpec ==
    /\ dest = Absent
    /\ prior = Absent
    /\ tmp = Absent
    /\ parentExists = TRUE
    /\ state = NoState
    /\ spc = "idle"
    /\ si = 1
    /\ sres = NoResult
    /\ InitOpen
    /\ InitImport
    /\ cpath \in ClassifyPaths
    /\ cres = NoClass
    /\ savers = [p \in 1..NumSavers |-> [pc |-> "idle", si |-> 1, res |-> NoResult]]
    /\ temps = [t \in 1..NumSavers |-> Absent]

NextClassify == Classify

SpecClassify == InitClassifySpec /\ [][NextClassify]_vars

(***************************************************************************)
(* Concurrent save_bundle calls on one destination path (cpres_save is an  *)
(* async command without a lock).  Each call has its own position and its  *)
(* own NamedTempFile; the destination and its directory are shared.        *)
(***************************************************************************)
Savers == 1..NumSavers

\* the BundleState argument of each concurrent call
ConcState(p) ==
    CASE p = 1 -> [ manifest |-> ValidManifest, slides |-> SlidesText,
                    arrangement |-> ArrangementText,
                    themes |-> << ThemeFile("themes/a.json", "{\"name\":\"A\"}") >>,
                    media |-> << MediaFileRef("m1", "/src/a.jpg", "media/a1b2c3d4.jpg") >> ]
      [] p = 2 -> [ manifest |-> ValidManifest, slides |-> "[]",
                    arrangement |-> ArrangementText,
                    themes |-> << ThemeFile("themes/b.json", "{\"name\":\"B\"}") >>,
                    media |-> <<>> ]
      [] OTHER -> [ manifest |-> "{}", slides |-> SlidesText,
                    arrangement |-> ArrangementText,
                    themes |-> <<>>,
                    media |-> <<>> ]

\* variant: every call uses the same temp file name
TempNameShared(p) == 1

\* NamedTempFile::new_in picks a name no other live temp file has
TempName(p) == p

ConcFail(p, e) ==
    /\ savers' = [savers EXCEPT ![p] = [pc |-> "failed", si |-> @.si, res |-> e]]
    /\ temps' = [temps EXCEPT ![TempName(p)] = Absent]
    /\ UNCHANGED <<dest, parentExists>>

ConcWrite(p, name, data, next, idx) ==
    LET t == temps[TempName(p)]
    IN \/ /\ t.tag = "partial"
          /\ ~HasEntry(t.entries, name)
          /\ temps' = [temps EXCEPT ![TempName(p)] =
                          PartialFile(Append(t.entries, Entry(name, data)))]
          /\ savers' = [savers EXCEPT ![p] = [pc |-> next, si |-> idx, res |-> @.res]]
          /\ UNCHANGED <<dest, parentExists>>
       \/ /\ HasEntry(t.entries, name)
          /\ ConcFail(p, Err("Zip", "Duplicate filename"))
       \/ ConcFail(p, IoError)

ConcGoto(p, next, idx) ==
    /\ savers' = [savers EXCEPT ![p] = [pc |-> next, si |-> idx, res |-> @.res]]
    /\ UNCHANGED <<dest, parentExists, temps>>

ConcFrame ==
    /\ UNCHANGED <<prior, tmp, state, spc, si, sres>>
    /\ UNCHANGED <<openVars, readVars, importVars, classVars>>

ConcBegin(p) ==
    /\ savers[p].pc = "idle"
    /\ ConcGoto(p, "create_dir", 1)
    /\ ConcFrame

ConcCreateDir(p) ==
    /\ savers[p].pc = "create_dir"
    /\ \/ /\ parentExists' = TRUE
          /\ savers' = [savers EXCEPT ![p] = [pc |-> "create_temp", si |-> 1, res |-> @.res]]
          /\ UNCHANGED <<dest, temps>>
       \/ /\ ~parentExists
          /\ ConcFail(p, IoError)
    /\ ConcFrame

ConcCreateTemp(p) ==
    /\ savers[p].pc = "create_temp"
    /\ \/ /\ temps' = [temps EXCEPT ![TempName(p)] = PartialFile(<<>>)]
          /\ savers' = [savers EXCEPT ![p] = [pc |-> "manifest", si |-> 1, res |-> @.res]]
          /\ UNCHANGED <<dest, parentExists>>
       \/ ConcFail(p, IoError)
    /\ ConcFrame

ConcManifest(p) ==
    /\ savers[p].pc = "manifest"
    /\ ConcWrite(p, "manifest.json", ConcState(p).manifest, "slides", 1)
    /\ ConcFrame

ConcSlides(p) ==
    /\ savers[p].pc = "slides"
    /\ ConcWrite(p, "slides.json", ConcState(p).slides, "arrangement", 1)
    /\ ConcFrame

ConcArrangement(p) ==
    /\ savers[p].pc = "arrangement"
    /\ ConcWrite(p, "arrangement.json", ConcState(p).arrangement, "themes", 1)
    /\ ConcFrame

ConcTheme(p) ==
    /\ savers[p].pc = "themes"
    /\ LET st == ConcState(p)
           k == savers[p].si
       IN IF k <= Len(st.themes)
          THEN ConcWrite(p, st.themes[k].filename, st.themes[k].content, "themes", k + 1)
          ELSE ConcGoto(p, "media", 1)
    /\ ConcFrame

ConcMedia(p) ==
    /\ savers[p].pc = "media"
    /\ LET st == ConcState(p)
           k == savers[p].si
       IN IF k <= Len(st.media)
          THEN IF StartsWith(st.media[k].source_path, "bundle:")
               THEN ConcGoto(p, "media", k + 1)
               ELSE IF Readable(st.media[k].source_path)
                    THEN ConcWrite(p, st.media[k].bundle_path,
                                   FileData(st.media[k].source_path), "media", k + 1)
                    ELSE ConcFail(p, IoError)
          ELSE ConcGoto(p, "finish", k)
    /\ ConcFrame

ConcFinish(p) ==
    /\ savers[p].pc = "finish"
    /\ \/ /\ temps[TempName(p)].tag = "partial"
          /\ temps' = [temps EXCEPT ![TempName(p)] = ZipFile(@.entries)]
          /\ savers' = [savers EXCEPT ![p] = [pc |-> "persist", si |-> @.si, res |-> @.res]]
          /\ UNCHANGED <<dest, parentExists>>
       \/ ConcFail(p, IoError)
    /\ ConcFrame

ConcPersist(p) ==
    /\ savers[p].pc = "persist"
    /\ \/ /\ temps[TempName(p)].tag # "absent"
          /\ dest' = temps[TempName(p)]
          /\ temps' = [temps EXCEPT ![TempName(p)] = Absent]
          /\ savers' = [savers EXCEPT ![p] = [pc |-> "done", si |-> @.si, res |-> Ok]]
          /\ UNCHANGED parentExists
       \/ ConcFail(p, IoError)
    /\ ConcFrame

(***************************************************************************)
(* Properties of save_bundle, open_bundle and read_bundle_media.           *)
(***************************************************************************)
IsSentinel(ref) == StartsWith(ref.source_path, "bundle:")

\* the archive a complete save of st consists of
WrittenArchive(st) ==
    LET plain == SelectSeq(st.media, LAMBDA r : ~IsSentinel(r))
    IN ZipFile(<< Entry("manifest.json", st.manifest),
                  Entry("slides.json", st.slides),
                  Entry("arrangement.json", st.arrangement) >>
               \o [i \in 1..Len(st.themes) |->
                      Entry(st.themes[i].filename, st.themes[i].content)]
               \o [i \in 1..Len(plain) |->
                      Entry(plain[i].bundle_path, FileData(plain[i].source_path))])

\* C1: at every moment of a save_bundle call (a failure or a crash at any step
\* included) the destination holds what it held before the call or the complete
\* new archive, never a partial archive; after an error it holds what it held before.
C1_SaveAtomic ==
    /\ dest.tag # "partial"
    /\ \/ dest = prior
       \/ spc = "done" /\ dest = WrittenArchive(state)
    /\ (sres.kind \notin {"none", "Ok"} => dest = prior)

\* a save that replaced nothing: it failed on a duplicate entry after entries were written
C1_Witness ==
    /\ spc = "failed"
    /\ sres.kind = "Zip"
    /\ prior = PreviousBundle
    /\ dest = PreviousBundle

AllPlain(st) == \A i \in 1..Len(st.media) : ~IsSentinel(st.media[i])

IsThemeName(name) == StartsWith(name, "themes/") /\ EndsWith(name, ".json")

RoundTripOpen(st) ==
    /\ ores = Ok
    /\ parsed = [manifest |-> st.manifest, slides |-> st.slides,
                 arrangement |-> st.arrangement, themes |-> st.themes]

RoundTripRead(st) ==
    \A i \in 1..Len(st.media) :
        st.media[i].bundle_path = rarg.path
            => rres = [kind |-> "Ok", detail |-> FileData(st.media[i].source_path)]

OpenedSaved == opc = "done" /\ oafter /\ ~ofault

ReadSaved == spc = "done" /\ rres # NoResult /\ rarg.fault = "none"

\* C2 as stated: for any BundleState without sentinel media, a successful save is
\* followed by an open that returns the state's manifest, slides, arrangement and
\* themes, and by media reads that return the source files' bytes.
C2_RoundTripAnyState ==
    AllPlain(state) =>
        /\ (OpenedSaved => RoundTripOpen(state))
        /\ (ReadSaved => RoundTripRead(state))

\* the bundle layout of the data model: a manifest with both required keys, theme
\* files named themes/*.json, media stored under names that are not theme names
WellFormedState(st) ==
    /\ JsonWellFormed(st.manifest)
    /\ JsonGet(st.manifest, "formatVersion")
    /\ JsonGet(st.manifest, "presentationId")
    /\ \A i \in 1..Len(st.themes) : IsThemeName(st.themes[i].filename)
    /\ \A i \in 1..Len(st.media) : ~IsThemeName(st.media[i].bundle_path)

\* C2 (amended): the round trip holds for every BundleState without sentinel media
\* whose manifest has both required keys, whose theme filenames are themes/*.json
\* and whose media bundle paths are not themes/*.json.
C2_RoundTrip ==
    (AllPlain(state) /\ WellFormedState(state)) =>
        /\ (OpenedSaved => RoundTripOpen(state))
        /\ (ReadSaved => RoundTripRead(state))

C2_Witness ==
    /\ AllPlain(state) /\ WellFormedState(state)
    /\ Len(state.themes) = 2
    /\ Len(state.media) = 1
    /\ OpenedSaved /\ ores = Ok
    /\ ReadSaved /\ rres.kind = "Ok"

\* C3: after a successful save every element of state.media has an entry at its
\* bundle_path, and a sentinel ref's entry holds the payload of the replaced bundle.
C3_NoMediaDropped ==
    spc = "done" =>
        \A i \in 1..Len(state.media) :
            LET ref == state.media[i]
            IN /\ HasEntry(dest.entries, ref.bundle_path)
               /\ (IsSentinel(ref) /\ HasEntry(prior.entries, ref.bundle_path)
                     => EntryData(dest.entries, ref.bundle_path)
                          = EntryData(prior.entries, ref.bundle_path))

ManifestOf(file) == EntryData(file.entries, "manifest.json")

MissingKeys(text) == {k \in {"formatVersion", "presentationId"} : ~JsonGet(text, k)}

\* C4: once manifest.json was read and parses, a missing formatVersion or
\* presentationId ends open_bundle with InvalidBundle naming a missing key, whatever
\* else the archive holds; nothing but the manifest is read before the check passed.
C4_ManifestFirst ==
    /\ (opc = "done" /\ oreads # <<>> /\ JsonWellFormed(ManifestOf(ofile))
          /\ MissingKeys(ManifestOf(ofile)) # {}
        => /\ ores.kind = "InvalidBundle"
           /\ \E k \in MissingKeys(ManifestOf(ofile)) : Contains(ores.detail, k)
           /\ oreads = <<"manifest.json">>)
    /\ (opc \in {"idle", "archive", "manifest"} => oreads = <<>>)
    /\ (opc = "validate" => oreads = <<"manifest.json">>)
    /\ (Len(oreads) >= 2
        => /\ oreads[1] = "manifest.json"
           /\ JsonWellFormed(ManifestOf(ofile))
           /\ MissingKeys(ManifestOf(ofile)) = {})

\* a manifest without formatVersion in an archive that has no slides.json
C4_Witness ==
    /\ opc = "done"
    /\ ofile.tag = "zip"
    /\ ~HasEntry(ofile.entries, "slides.json")
    /\ ores = Err("InvalidBundle", "Missing formatVersion in manifest")

OpenedClean == opc = "done" /\ ofile.tag = "zip" /\ ~ofault

HasValidManifest(file) ==
    /\ HasEntry(file.entries, "manifest.json")
    /\ JsonWellFormed(ManifestOf(file))
    /\ MissingKeys(ManifestOf(file)) = {}

\* C5: open_bundle fails with InvalidBundle on a manifest {}, with Json on a manifest
\* that is not JSON, with MissingFile naming slides.json / arrangement.json /
\* manifest.json when that entry is absent, and returns no ParsedBundle in these cases.
C5_ErrorKinds ==
    OpenedClean =>
        /\ (HasEntry(ofile.entries, "manifest.json") /\ ManifestOf(ofile) = "{}"
              => ores.kind = "InvalidBundle" /\ parsed = NoBundle)
        /\ (HasEntry(ofile.entries, "manifest.json") /\ ManifestOf(ofile) = "not json"
              => ores.kind = "Json" /\ parsed = NoBundle)
        /\ (HasValidManifest(ofile) /\ ~HasEntry(ofile.entries, "slides.json")
              => ores = Err("MissingFile", "slides.json") /\ parsed = NoBundle)
        /\ (HasValidManifest(ofile) /\ HasEntry(ofile.entries, "slides.json")
              /\ ~HasEntry(ofile.entries, "arrangement.json")
              => ores = Err("MissingFile", "arrangement.json") /\ parsed = NoBundle)
        /\ (~HasEntry(ofile.entries, "manifest.json")
              => ores = Err("MissingFile", "manifest.json") /\ parsed = NoBundle)

\* a valid manifest, slides.json present, arrangement.json absent
C5_Witness ==
    /\ OpenedClean
    /\ HasValidManifest(ofile)
    /\ ores = Err("MissingFile", "arrangement.json")

(***************************************************************************)
(* Properties of import_media_files.                                       *)
(***************************************************************************)
AllReadable(ps) == \A i \in 1..Len(ps) : Readable(ps[i])

IsFailure(r) == r.kind \notin {"none", "Ok"}

\* C6: a finished import returns one entry per input path, in input order, when
\* every path is readable, and an error with no entries at all otherwise.
C6_AllOrNothing ==
    ipc = "done" =>
        IF AllReadable(ipaths)
        THEN /\ ires = Ok
             /\ Len(entries) = Len(ipaths)
             /\ \A i \in 1..Len(ipaths) :
                    /\ "/src/" \o entries[i].filename = ipaths[i]
                    /\ entries[i].sha256 = Sha256Hex(FileData(ipaths[i]))
        ELSE /\ IsFailure(ires)
             /\ entries = <<>>

\* a batch whose first path was read and whose second path is unreadable
C6_Witness ==
    /\ ipc = "done"
    /\ Len(ipaths) = 2
    /\ Readable(ipaths[1])
    /\ ~Readable(ipaths[2])
    /\ ires.kind = "Io"

\* C7: every error identifies its cause: a failed import names the unreadable input
\* path, a save that failed on a media source names that source path, a missing
\* entry is named, and no error is without a file, entry or key.
C7_ErrorsIdentifyCause ==
    /\ (ipc = "done" /\ IsFailure(ires)
          => \E i \in 1..Len(ipaths) :
                 ~Readable(ipaths[i]) /\ Contains(ires.detail, ipaths[i]))
    /\ (spc = "failed" /\ sres.kind = "Io" /\ Len(state.media) > 0
          => \E i \in 1..Len(state.media) : Contains(sres.detail, state.media[i].source_path))
    /\ (opc = "done" /\ ores.kind = "MissingFile"
          => ores.detail \in {"manifest.json", "slides.json", "arrangement.json"}
             \/ IsThemeName(ores.detail))
    /\ (rres.kind = "MissingFile" => rres.detail = rarg.path)

SamePrefix(id1, id2) == SubSeq(id1, 1, 8) = SubSeq(id2, 1, 8)

SameFileTwice(i, j) ==
    ipaths[i] = ipaths[j]
        => /\ entries[i].sha256 = entries[j].sha256
           /\ entries[i].byte_size = entries[j].byte_size

\* C8 as stated: any two entries import produced, in one batch or across batches,
\* have different ids and different paths; the same file twice in a batch gives
\* the same sha256 and byte_size.
C8_DistinctIdsAndPaths ==
    /\ \A i, j \in 1..Len(entries) :
          i < j => /\ entries[i].id # entries[j].id
                   /\ entries[i].path # entries[j].path
                   /\ SameFileTwice(i, j)
    /\ \A e1, e2 \in issued :
          e1 # e2 => e1.id # e2.id /\ e1.path # e2.path

\* C8 (amended): any two entries have different ids, and different paths whenever
\* the first 8 characters of their ids differ; the same file twice in a batch
\* gives the same sha256 and byte_size.
C8_DistinctIds ==
    /\ \A i, j \in 1..Len(entries) :
          i < j => /\ entries[i].id # entries[j].id
                   /\ (~SamePrefix(entries[i].id, entries[j].id)
                         => entries[i].path # entries[j].path)
                   /\ SameFileTwice(i, j)
    /\ \A e1, e2 \in issued :
          e1 # e2 => /\ e1.id # e2.id
                     /\ (~SamePrefix(e1.id, e2.id) => e1.path # e2.path)

\* the same file imported twice in one batch, under ids with different prefixes
C8_Witness ==
    /\ ipc = "done"
    /\ ires = Ok
    /\ Len(entries) = 2
    /\ ipaths[1] = ipaths[2]
    /\ ~SamePrefix(entries[1].id, entries[2].id)
    /\ entries[1].path # entries[2].path

\* the lower-cased extension of each input path of the model
C9_Ext(path) ==
    CASE path = "/src/a.jpg" -> "jpg"
      [] path = "/src/photo.PNG" -> "png"
      [] path = "/src/notes.txt" -> "txt"
      [] path = "/src/gone.mp3" -> "mp3"
      [] path = "/src/README" -> ""

\* C9: every entry's path is "media/" + the first 8 characters of its id + "." +
\* the lower-cased extension of its input path ("media/<id8>." without extension).
C9_PathForm ==
    \A i \in 1..Len(entries) :
        entries[i].path = "media/" \o SubSeq(entries[i].id, 1, 8) \o "." \o C9_Ext(ipaths[i])

\* an input without extension: the path ends with the dot
C9_Witness ==
    \E i \in 1..Len(entries) :
        /\ ipaths[i] = "/src/README"
        /\ entries[i].id = "e5f6a7b8-0001"
        /\ entries[i].path = "media/e5f6a7b8."

MimeTable ==
    { <<"jpg", "image/jpeg">>, <<"jpeg", "image/jpeg">>, <<"png", "image/png">>,
      <<"gif", "image/gif">>, <<"webp", "image/webp">>, <<"svg", "image/svg+xml">>,
      <<"mp4", "video/mp4">>, <<"webm", "video/webm">>, <<"mov", "video/quicktime">>,
      <<"mp3", "audio/mpeg">>, <<"wav", "audio/wav">>, <<"ogg", "audio/ogg">> }

\* the path's file name ends in ".e" (any case) and is more than ".e"
HasExtension(path, e) ==
    /\ EndsWith(ToLowercase(path), "." \o e)
    /\ ~EndsWith(ToLowercase(path), "/." \o e)

\* C10: mime is given by the table on the lower-cased extension, octet-stream for
\* anything else; media_type is the mime's image/video/audio prefix, else unknown;
\* unknown exactly for octet-stream; the case of the extension does not matter.
C10_Classification ==
    cres # NoClass =>
        /\ \A t \in MimeTable : HasExtension(cpath, t[1]) => cres.mime = t[2]
        /\ ((\A t \in MimeTable : ~HasExtension(cpath, t[1]))
              => cres.mime = "application/octet-stream")
        /\ (cres.media_type = "image" <=> StartsWith(cres.mime, "image/"))
        /\ (cres.media_type = "video" <=> StartsWith(cres.mime, "video/"))
        /\ (cres.media_type = "audio" <=> StartsWith(cres.mime, "audio/"))
        /\ cres.media_type \in {"image", "video", "audio", "unknown"}
        /\ (cres.media_type = "unknown" <=> cres.mime = "application/octet-stream")
        /\ (cpath = "/m/photo.PNG" => cres.mime = "image/png" /\ cres.media_type = "image")
        /\ (cpath = "/m/my.clip.mov"
              => cres.mime = "video/quicktime" /\ cres.media_type = "video")
        /\ (cpath = "/m/photo.txt"
              => cres.mime = "application/octet-stream" /\ cres.media_type = "unknown")

C10_Witness ==
    /\ cpath = "/m/photo.PNG"
    /\ cres = [extension |-> "png", mime |-> "image/png", media_type |-> "image"]

(***************************************************************************)
(* Further properties of the archive reads and of save_bundle.             *)
(***************************************************************************)
\* C11: MissingFile is reported exactly for a name that is not in the archive; a
\* container error raised while looking up a present entry is reported as Zip.
C11_MissingOnlyWhenAbsent ==
    /\ (rres.kind = "MissingFile"
          => ~HasEntry(dest.entries, rarg.path) /\ rres.detail = rarg.path)
    /\ (rres # NoResult /\ dest.tag = "zip" /\ rarg.fault = "lookup"
          /\ HasEntry(dest.entries, rarg.path)
          => rres.kind = "Zip")
    /\ (opc = "done" /\ ores.kind = "MissingFile"
          => ~HasEntry(ofile.entries, ores.detail))

IsPrefix(a, b) == Len(a) <= Len(b) /\ SubSeq(b, 1, Len(a)) = a

\* C13: the temp archive always holds a prefix of manifest.json, slides.json,
\* arrangement.json, the themes in state order, the non-skipped media in state
\* order; it is finalized only when complete, and renamed only when finalized.
C13_WriteOrder ==
    /\ (tmp # Absent => IsPrefix(tmp.entries, WrittenArchive(state).entries))
    /\ (spc = "slides" => Len(tmp.entries) = 1)
    /\ (spc = "arrangement" => Len(tmp.entries) = 2)
    /\ (spc = "themes" => Len(tmp.entries) = 3 + (si - 1))
    /\ (spc = "media" => Len(tmp.entries) >= 3 + Len(state.themes))
    /\ (tmp.tag = "zip" => tmp = WrittenArchive(state))
    /\ (spc = "persist" => tmp.tag = "zip")
    /\ (spc \in {"manifest", "slides", "arrangement", "themes", "media", "finish"}
          => tmp.tag = "partial" /\ dest = prior)

\* two different themes and a media payload written, the archive finalized
C13_Witness ==
    /\ spc = "persist"
    /\ Len(state.themes) = 2
    /\ state.themes[1] # state.themes[2]
    /\ Len(state.media) = 2
    /\ Len(tmp.entries) = 6

ThemeEntries(file) == SelectSeq(file.entries, LAMBDA e : IsThemeName(e.name))

\* C14: on success the themes sequence is exactly the entries named themes/*.json,
\* each once, in archive index order, with their contents; no other entry appears.
C14_ThemesEnumerated ==
    (opc = "done" /\ ores = Ok) =>
        /\ Len(parsed.themes) = Len(ThemeEntries(ofile))
        /\ \A i \in 1..Len(parsed.themes) :
              /\ parsed.themes[i].filename = ThemeEntries(ofile)[i].name
              /\ parsed.themes[i].content = ThemeEntries(ofile)[i].data
        /\ \A i \in 1..Len(parsed.themes) :
              /\ StartsWith(parsed.themes[i].filename, "themes/")
              /\ EndsWith(parsed.themes[i].filename, ".json")

\* an archive with themes/b.json, themes/readme.txt, themes/a.json in that order
C14_Witness ==
    /\ opc = "done"
    /\ ores = Ok
    /\ HasEntry(ofile.entries, "themes/readme.txt")
    /\ Len(parsed.themes) = 2
    /\ parsed.themes[1].filename = "themes/b.json"
    /\ parsed.themes[2].filename = "themes/a.json"

\* C15: on a readable archive that holds media_path, read_bundle_media returns that
\* entry's bytes whatever the manifest, slides or arrangement are, and the bundle
\* file is left as it was.
C15_PointLookup ==
    rres # NoResult =>
        /\ dest = prior
        /\ (dest.tag = "zip" /\ HasEntry(dest.entries, rarg.path) /\ rarg.fault = "none"
              => rres = [kind |-> "Ok", detail |-> EntryData(dest.entries, rarg.path)])

\* a media entry read from an archive whose manifest is {} and that has no slides.json
C15_Witness ==
    /\ rres = [kind |-> "Ok", detail |-> "JPEG-BYTES"]
    /\ rarg.path = "media/a1b2c3d4.jpg"
    /\ HasEntry(dest.entries, "manifest.json")
    /\ ManifestOf(dest) = "{}"
    /\ ~HasEntry(dest.entries, "slides.json")

(***************************************************************************)
(* Concurrent saves.                                                       *)
(***************************************************************************)
NextConc ==
    \/ \E p \in Savers : ConcBegin(p)
    \/ \E p \in Savers : ConcCreateDir(p)
    \/ \E p \in Savers : ConcCreateTemp(p)
    \/ \E p \in Savers : ConcManifest(p)
    \/ \E p \in Savers : ConcSlides(p)
    \/ \E p \in Savers : ConcArrangement(p)
    \/ \E p \in Savers : ConcTheme(p)
    \/ \E p \in Savers : ConcMedia(p)
    \/ \E p \in Savers : ConcFinish(p)
    \/ \E p \in Savers : ConcPersist(p)
    \/ OpenBegin
    \/ OpenArchive
    \/ OpenManifest
    \/ OpenValidate
    \/ OpenSlides
    \/ OpenArrangement
    \/ OpenThemes
    \/ ReadMedia

SpecConc == InitConcSpec /\ [][NextConc]_vars

ConcArchives(S) == {WrittenArchive(ConcState(p)) : p \in S}

Succeeded == {p \in Savers : savers[p].pc = "done"}

AllReturned == \A p \in Savers : savers[p].pc \in {"done", "failed"}

\* C16: under every interleaving of the saves, opens and media reads, the
\* destination (and so every file an open or read works on) is its prior content
\* or the complete archive of one save that succeeded; when all saves have
\* returned it is the archive of a save that succeeded, or the prior content if
\* none did.
C16_ConcurrentSaves ==
    /\ dest \in {prior} \cup ConcArchives(Succeeded)
    /\ (AllReturned /\ Succeeded # {} => dest \in ConcArchives(Succeeded))
    /\ (Succeeded = {} => dest = prior)
    /\ ofile \in {Absent, prior} \cup ConcArchives(Savers)
    /\ (rres # NoResult
          => \E f \in {prior} \cup ConcArchives(Savers) :
                 rres = ReadBundleMedia(f, rarg.path, rarg.fault))

\* both saves succeeded, the first one's archive is the destination, and an open
\* that ran in between returned the second one's bundle
C16_Witness ==
    /\ Succeeded = Savers
    /\ dest = WrittenArchive(ConcState(1))
    /\ opc = "done"
    /\ ores = Ok
    /\ ofile = WrittenArchive(ConcState(2))

====
